---- MODULE Spec2Model ----
(***************************************************************************)
(* The temporal query resolver and event-context builder of the Athens     *)
(* events assistant (src/finalapp.py): determine_target_date,              *)
(* build_dataset_context, the event lookups and the per-session state      *)
(* (st.session_state.messages, st.session_state.last_target_date).         *)
(*                                                                         *)
(* Text is modelled as text: a query is a string, "x in query_lower" is a  *)
(* substring search, str.lower() maps letters, the date pattern is         *)
(* scanned character by character and strptime parses digits.  A date is   *)
(* its proleptic Gregorian ordinal (date.toordinal(): 0001-01-01 is 1), so *)
(* "+ timedelta(days=n)" is "+ n" and weekday() is (ordinal + 6) % 7.      *)
(***************************************************************************)
EXTENDS Integers, Sequences, FiniteSets, TLC

VARIABLES
    dataset,                  \* the rows of athens_events.xlsx as pd.read_excel returns them
    events_df,                \* the table after line 28, empty when the load raised
    current_date,             \* datetime.today() of the latest script run
    messages,                 \* st.session_state.messages
    last_target_date,         \* st.session_state.last_target_date
    prompt,                   \* the utterance of the latest script run, or NoPrompt
    target_date,              \* target_date of the latest script run
    dataset_context,          \* dataset_context of the latest script run
    last_target_date_before,  \* history: last_target_date when the latest run began
    date_context_text,        \* date_context_text of the latest script run
    conversation_history,     \* conversation_history of the latest script run
    full_prompt,              \* full_prompt of the latest script run
    session,                  \* the browser session of the latest script run
    other_session,            \* st.session_state of the other browser session
    remembered_run,           \* history: one earlier script run with an utterance
    app_messages,             \* app.py: st.session_state.messages
    date_plan_context,        \* app.py: st.session_state.date_plan_context
    app_prompt,               \* app.py: the utterance of the latest script run
    app_branch,               \* app.py: the branch the latest script run took
    app_flag_set              \* history, app.py: the latest run assigned True to the flag

\* the variables of a script run of finalapp.py in one browser session
run_vars == <<dataset, events_df, current_date, messages, last_target_date, prompt,
              target_date, dataset_context, last_target_date_before,
              date_context_text, conversation_history, full_prompt>>

\* the variables of the second browser session and of the remembered run
session_vars == <<session, other_session, remembered_run>>

\* the variables of app.py
app_vars == <<app_messages, date_plan_context, app_prompt, app_branch, app_flag_set>>

vars == <<run_vars, session_vars, app_vars>>

-----------------------------------------------------------------------------
(* Text *)

UpperLetters == "ABCDEFGHIJKLMNOPQRSTUVWXYZ"
LowerLetters == "abcdefghijklmnopqrstuvwxyz"
DigitChars == "0123456789"

\* s[i] as a one-character string
CharAt(s, i) == SubSeq(s, i, i)

UpperSet == {CharAt(UpperLetters, i) : i \in 1..Len(UpperLetters)}
DigitSet == {CharAt(DigitChars, i) : i \in 1..Len(DigitChars)}

\* c.lower() for one character
lower_char(c) ==
    IF c \in UpperSet
    THEN CharAt(LowerLetters, CHOOSE i \in 1..Len(UpperLetters) : CharAt(UpperLetters, i) = c)
    ELSE c

\* str.lower()
RECURSIVE lower(_)
lower(s) == IF s = "" THEN "" ELSE lower_char(CharAt(s, 1)) \o lower(SubSeq(s, 2, Len(s)))

\* needle in hay
Contains(hay, needle) ==
    \E i \in 1..(Len(hay) - Len(needle) + 1) : SubSeq(hay, i, i + Len(needle) - 1) = needle

\* hay.startswith(prefix)
startswith(hay, prefix) ==
    Len(prefix) <= Len(hay) /\ SubSeq(hay, 1, Len(prefix)) = prefix

IsDigit(c) == c \in DigitSet

DigitVal(c) == (CHOOSE i \in 1..Len(DigitChars) : CharAt(DigitChars, i) = c) - 1

\* int(s) for a string of digits
RECURSIVE ParseInt(_)
ParseInt(s) ==
    IF s = "" THEN 0
    ELSE ParseInt(SubSeq(s, 1, Len(s) - 1)) * 10 + DigitVal(CharAt(s, Len(s)))

\* str(n) for n >= 0
RECURSIVE IntToStr(_)
IntToStr(n) ==
    IF n < 10 THEN CharAt(DigitChars, n + 1)
    ELSE IntToStr(n \div 10) \o CharAt(DigitChars, (n % 10) + 1)

-----------------------------------------------------------------------------
(* Calendar: datetime's proleptic Gregorian ordinals *)

is_leap(y) == y % 4 = 0 /\ (y % 100 # 0 \/ y % 400 = 0)

days_in_month(y, m) ==
    IF m = 2 THEN (IF is_leap(y) THEN 29 ELSE 28)
    ELSE IF m \in {4, 6, 9, 11} THEN 30 ELSE 31

days_before_year(y) ==
    (y - 1) * 365 + ((y - 1) \div 4) - ((y - 1) \div 100) + ((y - 1) \div 400)

RECURSIVE days_before_month(_, _)
days_before_month(y, m) ==
    IF m = 1 THEN 0 ELSE days_before_month(y, m - 1) + days_in_month(y, m - 1)

\* datetime(y, m, d).toordinal()
ymd2ord(y, m, d) == days_before_year(y) + days_before_month(y, m) + d

\* datetime.weekday(): Monday is 0
weekday(d) == (d + 6) % 7

YearOf(n) ==
    CHOOSE y \in (n \div 366)..((n \div 365) + 1) :
        y >= 1 /\ days_before_year(y) < n /\ n <= days_before_year(y + 1)

MonthOf(n) ==
    LET y == YearOf(n)
        r == n - days_before_year(y)
    IN  CHOOSE m \in 1..12 :
            days_before_month(y, m) < r /\ r <= days_before_month(y, m) + days_in_month(y, m)

DayOf(n) == n - days_before_year(YearOf(n)) - days_before_month(YearOf(n), MonthOf(n))

DayNames == <<"Monday", "Tuesday", "Wednesday", "Thursday", "Friday", "Saturday", "Sunday">>

MonthNames == <<"January", "February", "March", "April", "May", "June", "July",
                "August", "September", "October", "November", "December">>

\* d.strftime("%A, %B %d, %Y")
strftime(d) ==
    DayNames[weekday(d) + 1] \o ", " \o MonthNames[MonthOf(d)] \o " "
        \o (IF DayOf(d) < 10 THEN "0" ELSE "") \o IntToStr(DayOf(d)) \o ", "
        \o IntToStr(YearOf(d))

-----------------------------------------------------------------------------
(* The date literal: re.search(r"(\d{1,2}/\d{1,2}/\d{2,4})", query) and strptime *)

\* s[i], or "" past the end of s
Ch(s, i) == IF i >= 1 /\ i <= Len(s) THEN SubSeq(s, i, i) ELSE ""

\* \d{1,2} followed by "/" at position i: the number of digits taken (greedy,
\* the "/" after it decides), 0 when it does not match
DigitsThenSlash(s, i) ==
    IF IsDigit(Ch(s, i)) /\ IsDigit(Ch(s, i + 1)) /\ Ch(s, i + 2) = "/" THEN 2
    ELSE IF IsDigit(Ch(s, i)) /\ Ch(s, i + 1) = "/" THEN 1
    ELSE 0

\* \d{2,4} at position i: the number of digits taken (greedy), 0 when fewer than 2
YearDigits(s, i) ==
    IF ~(IsDigit(Ch(s, i)) /\ IsDigit(Ch(s, i + 1))) THEN 0
    ELSE IF ~IsDigit(Ch(s, i + 2)) THEN 2
    ELSE IF ~IsDigit(Ch(s, i + 3)) THEN 3
    ELSE 4

\* the pattern matched at position i: the matched text, "" when it does not match
MatchAt(s, i) ==
    LET n1 == DigitsThenSlash(s, i)
        j  == i + n1 + 1
        n2 == DigitsThenSlash(s, j)
        k  == j + n2 + 1
        n3 == YearDigits(s, k)
    IN  IF n1 = 0 \/ n2 = 0 \/ n3 = 0 THEN "" ELSE SubSeq(s, i, k + n3 - 1)

\* the scan of re.search from position i on: the leftmost match, "" for none
RECURSIVE SearchFrom(_, _)
SearchFrom(s, i) ==
    IF i > Len(s) THEN ""
    ELSE IF MatchAt(s, i) # "" THEN MatchAt(s, i)
    ELSE SearchFrom(s, i + 1)

\* re.search(...).group(1): the leftmost match, "" for no match (None)
re_search_date(query) == SearchFrom(query, 1)

\* st.session_state.last_target_date = None
NoneDate == 0

\* strptime raised ValueError
ValueError == 0 - 1

\* the three fields of a matched literal
MonthText(date_str) == SubSeq(date_str, 1, DigitsThenSlash(date_str, 1))
DayText(date_str) ==
    LET j == DigitsThenSlash(date_str, 1) + 2
    IN  SubSeq(date_str, j, j + DigitsThenSlash(date_str, j) - 1)
YearText(date_str) ==
    LET j == DigitsThenSlash(date_str, 1) + 2
        k == j + DigitsThenSlash(date_str, j) + 1
    IN  SubSeq(date_str, k, Len(date_str))

\* datetime(year, month, day), ValueError when out of range
datetime(year, month, day) ==
    IF year >= 1 /\ year <= 9999 /\ month \in 1..12 /\ day >= 1 /\ day <= days_in_month(year, month)
    THEN ymd2ord(year, month, day)
    ELSE ValueError

\* strptime_Y reading the day before the month ("%d/%m/%Y")
strptime_Y_day_first(date_str) ==
    LET d == ParseInt(MonthText(date_str))
        m == ParseInt(DayText(date_str))
    IN  IF m \in 1..12 /\ d \in 1..31 /\ Len(YearText(date_str)) = 4
        THEN datetime(ParseInt(YearText(date_str)), m, d)
        ELSE ValueError

\* datetime.strptime(date_str, "%m/%d/%Y"): %m is 1..12, %d is 1..31 (one or two
\* digits, a leading zero allowed), %Y is exactly four digits
strptime_Y(date_str) ==
    LET m == ParseInt(MonthText(date_str))
        d == ParseInt(DayText(date_str))
    IN  IF m \in 1..12 /\ d \in 1..31 /\ Len(YearText(date_str)) = 4
        THEN datetime(ParseInt(YearText(date_str)), m, d)
        ELSE ValueError

\* datetime.strptime(date_str, "%m/%d/%y"): %y is exactly two digits, 00..68 is
\* 2000..2068 and 69..99 is 1969..1999
strptime_y(date_str) ==
    LET m == ParseInt(MonthText(date_str))
        d == ParseInt(DayText(date_str))
        y == ParseInt(YearText(date_str))
    IN  IF m \in 1..12 /\ d \in 1..31 /\ Len(YearText(date_str)) = 2
        THEN datetime(IF y <= 68 THEN 2000 + y ELSE 1900 + y, m, d)
        ELSE ValueError

\* for fmt in ("%m/%d/%Y", "%m/%d/%y"): try: return strptime(...) except ValueError: continue
\* the date returned, ValueError when the loop ends without returning
parse_date_literal(date_str) ==
    IF strptime_Y(date_str) # ValueError THEN strptime_Y(date_str)
    ELSE IF strptime_y(date_str) # ValueError THEN strptime_y(date_str)
    ELSE ValueError

-----------------------------------------------------------------------------
(* determine_target_date *)

AnaphoraTerms == <<"that day", "later", "other", "that night">>

days == <<"monday", "tuesday", "wednesday", "thursday", "friday", "saturday", "sunday">>

\* any(term in query_lower for term in [...])
any_term(query_lower) == \E i \in 1..Len(AnaphoraTerms) : Contains(query_lower, AnaphoraTerms[i])

\* first_day_named by the place in the query: the weekday named first in it
first_day_named_in_query(query_lower) ==
    LET named == {i \in 1..Len(days) : Contains(query_lower, days[i])}
        Place(i) == CHOOSE p \in 1..(Len(query_lower) - Len(days[i]) + 1) :
                        /\ SubSeq(query_lower, p, p + Len(days[i]) - 1) = days[i]
                        /\ \A q \in 1..(p - 1) : SubSeq(query_lower, q, q + Len(days[i]) - 1) # days[i]
    IN  IF named = {} THEN 0 ELSE CHOOSE i \in named : \A h \in named : Place(i) <= Place(h)

\* for day in days: if day in query_lower: the index (from 1) of the first such
\* day in the order of the list, 0 when the loop finds none
first_day_named(query_lower) ==
    LET named == {i \in 1..Len(days) : Contains(query_lower, days[i])}
    IN  IF named = {} THEN 0 ELSE CHOOSE i \in named : \A h \in named : i <= h

\* days_ahead with > for >=: the weekday of today is a week ahead
days_ahead_strict(target_index, today_index) ==
    IF target_index > today_index THEN target_index - today_index
    ELSE target_index - today_index + 7

\* days_ahead of the named-weekday rule
days_ahead(target_index, today_index) ==
    IF target_index >= today_index THEN target_index - today_index
    ELSE target_index - today_index + 7

\* next_monday with the offset taken modulo 7: a Monday is its own next Monday
next_monday_same_day(base_date) == base_date + ((7 - weekday(base_date)) % 7)

\* base_date + timedelta(days=(7 - base_date.weekday()))
next_monday(base_date) == base_date + (7 - weekday(base_date))

\* this_saturday that never looks back: on a Sunday the Saturday six days ahead
this_saturday_upcoming(base_date) == base_date + ((5 - weekday(base_date)) % 7)

\* this_saturday with the offset of Sunday
this_saturday_is_sunday(base_date) == base_date + (6 - weekday(base_date))

\* base_date + timedelta(days=(5 - base_date.weekday()))
this_saturday(base_date) == base_date + (5 - weekday(base_date))

\* determine_target_date with the anaphora check moved above the "tomorrow" check
determine_target_date_anaphora_first(query, base_date, last) ==
    LET query_lower == lower(query)
        match == re_search_date(query)
    IN  IF last # NoneDate /\ any_term(query_lower) THEN last
        ELSE IF Contains(query_lower, "tomorrow") THEN base_date + 1
        ELSE IF Contains(query_lower, "next week") THEN next_monday(base_date)
        ELSE IF first_day_named(query_lower) # 0
             THEN base_date + days_ahead(first_day_named(query_lower) - 1, weekday(base_date))
        ELSE IF match # "" /\ parse_date_literal(match) # ValueError
             THEN parse_date_literal(match)
        ELSE IF Contains(query_lower, "weekend") THEN this_saturday(base_date)
        ELSE base_date

\* determine_target_date without the anaphora check
determine_target_date_no_anaphora(query, base_date, last) ==
    LET query_lower == lower(query)
        match == re_search_date(query)
    IN  IF Contains(query_lower, "tomorrow") THEN base_date + 1
        ELSE IF Contains(query_lower, "next week") THEN next_monday(base_date)
        ELSE IF first_day_named(query_lower) # 0
             THEN base_date + days_ahead(first_day_named(query_lower) - 1, weekday(base_date))
        ELSE IF match # "" /\ parse_date_literal(match) # ValueError
             THEN parse_date_literal(match)
        ELSE IF Contains(query_lower, "weekend") THEN this_saturday(base_date)
        ELSE base_date

\* determine_target_date with the "tomorrow" check moved below the other keywords
determine_target_date_tomorrow_last(query, base_date, last) ==
    LET query_lower == lower(query)
        match == re_search_date(query)
    IN  IF last # NoneDate /\ any_term(query_lower) THEN last
        ELSE IF Contains(query_lower, "next week") THEN next_monday(base_date)
        ELSE IF first_day_named(query_lower) # 0
             THEN base_date + days_ahead(first_day_named(query_lower) - 1, weekday(base_date))
        ELSE IF match # "" /\ parse_date_literal(match) # ValueError
             THEN parse_date_literal(match)
        ELSE IF Contains(query_lower, "weekend") THEN this_saturday(base_date)
        ELSE IF Contains(query_lower, "tomorrow") THEN base_date + 1
        ELSE base_date

\* determine_target_date without the except clause: the ValueError of the first
\* format leaves the function
determine_target_date_uncaught(query, base_date, last) ==
    LET query_lower == lower(query)
        match == re_search_date(query)
    IN  IF Contains(query_lower, "tomorrow") THEN base_date + 1
        ELSE IF last # NoneDate /\ any_term(query_lower) THEN last
        ELSE IF Contains(query_lower, "next week") THEN next_monday(base_date)
        ELSE IF first_day_named(query_lower) # 0
             THEN base_date + days_ahead(first_day_named(query_lower) - 1, weekday(base_date))
        ELSE IF match # "" THEN strptime_Y(match)
        ELSE IF Contains(query_lower, "weekend") THEN this_saturday(base_date)
        ELSE base_date

\* determine_target_date returning base_date from the except clause instead of
\* going on to the next rule
determine_target_date_gives_up(query, base_date, last) ==
    LET query_lower == lower(query)
        match == re_search_date(query)
    IN  IF Contains(query_lower, "tomorrow") THEN base_date + 1
        ELSE IF last # NoneDate /\ any_term(query_lower) THEN last
        ELSE IF Contains(query_lower, "next week") THEN next_monday(base_date)
        ELSE IF first_day_named(query_lower) # 0
             THEN base_date + days_ahead(first_day_named(query_lower) - 1, weekday(base_date))
        ELSE IF match # ""
             THEN (IF parse_date_literal(match) # ValueError THEN parse_date_literal(match)
                   ELSE base_date)
        ELSE IF Contains(query_lower, "weekend") THEN this_saturday(base_date)
        ELSE base_date

\* determine_target_date(query, base_date), reading st.session_state.last_target_date
determine_target_date(query, base_date, last) ==
    LET query_lower == lower(query)
        match == re_search_date(query)
    IN  IF Contains(query_lower, "tomorrow") THEN base_date + 1
        ELSE IF last # NoneDate /\ any_term(query_lower) THEN last
        ELSE IF Contains(query_lower, "next week") THEN next_monday(base_date)
        ELSE IF first_day_named(query_lower) # 0
             THEN base_date + days_ahead(first_day_named(query_lower) - 1, weekday(base_date))
        ELSE IF match # "" /\ parse_date_literal(match) # ValueError
             THEN parse_date_literal(match)
        ELSE IF Contains(query_lower, "weekend") THEN this_saturday(base_date)
        ELSE base_date

-----------------------------------------------------------------------------
(* Formatting of one record.  In the context lines "*" stands for the bullet *)
(* and "--" for the dash of the source's f-string.                          *)

\* \d{1,2} followed by sep at position i: the number of digits, 0 for no match
DigitsThen(s, i, sep) ==
    IF IsDigit(Ch(s, i)) /\ IsDigit(Ch(s, i + 1)) /\ Ch(s, i + 2) = sep THEN 2
    ELSE IF IsDigit(Ch(s, i)) /\ Ch(s, i + 1) = sep THEN 1
    ELSE 0

\* datetime.strptime(time_str, "%H:%M:%S") succeeds
time_parses(time_str) ==
    LET n1 == DigitsThen(time_str, 1, ":")
        j  == n1 + 2
        n2 == DigitsThen(time_str, j, ":")
        k  == j + n2 + 1
        n3 == Len(time_str) - k + 1
    IN  /\ n1 > 0 /\ n2 > 0 /\ n3 \in {1, 2}
        /\ \A i \in k..Len(time_str) : IsDigit(Ch(time_str, i))
        /\ ParseInt(SubSeq(time_str, 1, n1)) <= 23
        /\ ParseInt(SubSeq(time_str, j, j + n2 - 1)) <= 59
        /\ ParseInt(SubSeq(time_str, k, Len(time_str))) <= 61

time_hour(time_str) == ParseInt(SubSeq(time_str, 1, DigitsThen(time_str, 1, ":")))

time_minute(time_str) ==
    LET j == DigitsThen(time_str, 1, ":") + 2
    IN  ParseInt(SubSeq(time_str, j, j + DigitsThen(time_str, j, ":") - 1))

time_second(time_str) ==
    LET j == DigitsThen(time_str, 1, ":") + 2
        k == j + DigitsThen(time_str, j, ":") + 1
    IN  ParseInt(SubSeq(time_str, k, Len(time_str)))

\* format_time: "%-I:%M %p" of a parsed time, the text itself otherwise
format_time(time_str) ==
    IF time_parses(time_str)
    THEN LET h == time_hour(time_str)
             m == time_minute(time_str)
         IN  IntToStr(IF h % 12 = 0 THEN 12 ELSE h % 12) \o ":"
                 \o (IF m < 10 THEN "0" ELSE "") \o IntToStr(m)
                 \o (IF h < 12 THEN " AM" ELSE " PM")
    ELSE time_str

\* format_price.  A Price cell is a number, held in cents; or empty, which
\* pd.read_excel returns as the float NaN; or text that float() rejects.
\* float(NaN) is NaN, which is not 0 and which ":.2f" prints as "nan".
format_price(price) ==
    IF price.kind = "number"
    THEN IF price.cents = 0 THEN "Free"
         ELSE LET cents == IF price.cents < 0 THEN 0 - price.cents ELSE price.cents
              IN  "$" \o (IF price.cents < 0 THEN "-" ELSE "") \o IntToStr(cents \div 100) \o "."
                      \o (IF cents % 100 < 10 THEN "0" ELSE "") \o IntToStr(cents % 100)
    ELSE IF price.kind = "nan" THEN "$nan"
    ELSE price.text

\* one line of a context: f"* {Event} on {date} at {time} at {Location} -- {price}\n"
event_line(row) ==
    "* " \o row.Event \o " on " \o strftime(row.Date) \o " at " \o format_time(row.Time)
         \o " at " \o row.Location \o " -- " \o format_price(row.Price) \o "\n"

-----------------------------------------------------------------------------
(* The lookups on events_df *)

\* the sort key of the Time column: the time of day, a missing time last
time_key(time_str) ==
    IF time_parses(time_str)
    THEN time_hour(time_str) * 3600 + time_minute(time_str) * 60 + time_second(time_str)
    ELSE 86400

\* row a sorts strictly after row b by ["Date", "Time"]
sorts_after(a, b) ==
    \/ a.Date > b.Date
    \/ a.Date = b.Date /\ time_key(a.Time) > time_key(b.Time)

\* insert_row that puts a row before the rows of equal key: not a stable sort
RECURSIVE insert_row_before_equals(_, _)
insert_row_before_equals(sorted, row) ==
    IF sorted = <<>> THEN <<row>>
    ELSE IF ~sorts_after(row, Head(sorted)) THEN <<row>> \o sorted
    ELSE <<Head(sorted)>> \o insert_row_before_equals(Tail(sorted), row)

\* one row put into a sorted sequence, after the rows it does not sort before
RECURSIVE insert_row(_, _)
insert_row(sorted, row) ==
    IF sorted = <<>> THEN <<row>>
    ELSE IF sorts_after(Head(sorted), row) THEN <<row>> \o sorted
    ELSE <<Head(sorted)>> \o insert_row(Tail(sorted), row)

\* filtered.sort_values(by=["Date", "Time"]): a stable sort
RECURSIVE sort_values(_)
sort_values(rows) ==
    IF rows = <<>> THEN <<>>
    ELSE insert_row(sort_values(SubSeq(rows, 1, Len(rows) - 1)), rows[Len(rows)])

\* the loop over filtered.iterrows() that concatenates the lines
RECURSIVE join_lines(_)
join_lines(rows) ==
    IF rows = <<>> THEN "" ELSE event_line(Head(rows)) \o join_lines(Tail(rows))

get_events_for_date_range(df, target) ==
    LET OnDate(row) == row.Date = target
        filtered == SelectSeq(df, OnDate)
    IN  IF filtered = <<>> THEN "No events found for this date."
        ELSE join_lines(sort_values(filtered))

\* get_events_for_category_and_date comparing Category == category as stored
get_events_for_category_and_date_case_sensitive(df, category, target) ==
    LET Wanted(row) == row.Category = category /\ row.Date = target
        filtered == SelectSeq(df, Wanted)
    IN  IF filtered = <<>>
        THEN "No " \o category \o " events found on " \o strftime(target) \o "."
        ELSE join_lines(sort_values(filtered))

\* get_events_for_category_and_date with the sentence of get_events_for_date_range
get_events_for_category_and_date_generic(df, category, target) ==
    LET Wanted(row) == lower(row.Category) = lower(category) /\ row.Date = target
        filtered == SelectSeq(df, Wanted)
    IN  IF filtered = <<>> THEN "No events found for this date."
        ELSE join_lines(sort_values(filtered))

\* get_events_for_category_and_date without its "if filtered.empty" branch
get_events_for_category_and_date_unguarded(df, category, target) ==
    LET Wanted(row) == lower(row.Category) = lower(category) /\ row.Date = target
    IN  join_lines(sort_values(SelectSeq(df, Wanted)))

get_events_for_category_and_date(df, category, target) ==
    LET Wanted(row) == lower(row.Category) = lower(category) /\ row.Date = target
        filtered == SelectSeq(df, Wanted)
    IN  IF filtered = <<>>
        THEN "No " \o category \o " events found on " \o strftime(target) \o "."
        ELSE join_lines(sort_values(filtered))

\* the while loop of get_grouped_events_for_date_range_range, from current on
RECURSIVE get_grouped_events_for_date_range_range(_, _, _)
get_grouped_events_for_date_range_range(df, current, end_date) ==
    IF current <= end_date
    THEN LET events == get_events_for_date_range(df, current)
             events_text == IF startswith(events, "No events") THEN "No events." ELSE events
         IN  strftime(current) \o ":\n" \o events_text \o "\n"
                 \o get_grouped_events_for_date_range_range(df, current + 1, end_date)
    ELSE ""

\* get_grouped_category_events_for_date_range with "while current < end_date":
\* the last day is left out
RECURSIVE get_grouped_category_events_for_date_range_exclusive(_, _, _, _)
get_grouped_category_events_for_date_range_exclusive(df, category, current, end_date) ==
    IF current < end_date
    THEN LET events == get_events_for_category_and_date(df, category, current)
             events_text == IF startswith(events, "No " \o category) THEN "No events." ELSE events
         IN  strftime(current) \o ":\n" \o events_text \o "\n"
                 \o get_grouped_category_events_for_date_range_exclusive(df, category, current + 1, end_date)
    ELSE ""

\* the while loop of get_grouped_category_events_for_date_range, from current on
RECURSIVE get_grouped_category_events_for_date_range(_, _, _, _)
get_grouped_category_events_for_date_range(df, category, current, end_date) ==
    IF current <= end_date
    THEN LET events == get_events_for_category_and_date(df, category, current)
             events_text == IF startswith(events, "No " \o category) THEN "No events." ELSE events
         IN  strftime(current) \o ":\n" \o events_text \o "\n"
                 \o get_grouped_category_events_for_date_range(df, category, current + 1, end_date)
    ELSE ""

\* category_of with the "music" test above the "karaoke" test
category_of_music_first(query_lower) ==
    IF Contains(query_lower, "music") \/ Contains(query_lower, "concert") THEN "Music"
    ELSE IF Contains(query_lower, "karaoke") THEN "Karaoke & Open Mic"
    ELSE IF Contains(query_lower, "comedy") THEN "Comedy"
    ELSE ""

\* the keyword table of build_dataset_context: the category selected, "" for none
category_of(query_lower) ==
    IF Contains(query_lower, "karaoke") THEN "Karaoke & Open Mic"
    ELSE IF Contains(query_lower, "music") \/ Contains(query_lower, "concert") THEN "Music"
    ELSE IF Contains(query_lower, "comedy") THEN "Comedy"
    ELSE ""

\* the last day of the range that build_dataset_context iterates
next_sunday(target) == target + 6

build_dataset_context(df, query, target) ==
    LET query_lower == lower(query)
        category == category_of(query_lower)
    IN  IF Contains(query_lower, "next week")
        THEN IF category # ""
             THEN get_grouped_category_events_for_date_range(df, category, target, next_sunday(target))
             ELSE get_grouped_events_for_date_range_range(df, target, next_sunday(target))
        ELSE IF category # ""
             THEN get_events_for_category_and_date(df, category, target)
             ELSE get_events_for_date_range(df, target)

-----------------------------------------------------------------------------
(* The prompt: lines 211 to 250 *)

\* the terms of the second branch of date_context_text
HeaderTerms == <<"saturday", "sunday", "that day", "later", "other">>

\* date_context_text, lines 212 to 221
build_date_context_text(query, now, target) ==
    LET query_lower == lower(query)
    IN  IF Contains(query_lower, "next week")
        THEN "for next week (Monday: " \o strftime(next_monday(now))
                 \o " to Sunday: " \o strftime(next_monday(now) + 6) \o ")"
        ELSE IF \E i \in 1..Len(HeaderTerms) : Contains(query_lower, HeaderTerms[i])
             THEN "for " \o strftime(target)
        ELSE IF Contains(query_lower, "weekend")
             THEN "for the weekend (Saturday: " \o strftime(now + (5 - weekday(now)))
                      \o ", Sunday: " \o strftime(now + (6 - weekday(now))) \o ")"
        ELSE "for " \o strftime(target)

\* "\n".join([f"{m['role']}: {m['content']}" for m in st.session_state.messages])
RECURSIVE build_conversation_history(_)
build_conversation_history(msgs) ==
    IF msgs = <<>> THEN ""
    ELSE IF Len(msgs) = 1 THEN msgs[1].role \o ": " \o msgs[1].content
    ELSE msgs[1].role \o ": " \o msgs[1].content \o "\n" \o build_conversation_history(Tail(msgs))

\* the fixed sentences of custom_instructions between the date context and the
\* dataset context, lines 227 to 241, cut short
Persona == "You're The Guide Dawg, your chill event and date planning assistant. "

\* custom_instructions, lines 225 to 243
custom_instructions(now, header, context) ==
    "Hey, it's " \o strftime(now) \o " and we're in the Eastern Time Zone. " \o header \o ". "
        \o Persona \o "Below is the dataset context for the specified period:\n" \o context

\* full_prompt, lines 245 to 250
build_full_prompt(instructions, history, query) ==
    instructions \o "\n\n" \o "Conversation History:\n" \o history \o "\n\n"
        \o "User: " \o query \o "\n" \o "Assistant (in a chill tone):"

-----------------------------------------------------------------------------
(* The load: lines 26 to 28.  A Date cell of the sheet is a date, or empty, *)
(* or text that is no date.                                                *)

\* NaT, the Date that pd.to_datetime gives an empty cell: no date equals it
NaT == 0

\* pd.to_datetime(events_df["Date"]) raises: errors="raise" is its default
to_datetime_raises(data) == \E i \in 1..Len(data) : data[i].Date.kind = "text"

\* events_df["Date"] = pd.to_datetime(events_df["Date"]): every row is kept
to_datetime(data) ==
    [i \in 1..Len(data) |->
        [data[i] EXCEPT !.Date = IF data[i].Date.kind = "date" THEN data[i].Date.date ELSE NaT]]

\* lines 26 to 28: the table the rest of the script reads; a raise stops the script
load_events(data) == IF to_datetime_raises(data) THEN <<>> ELSE to_datetime(data)

-----------------------------------------------------------------------------
(* Bounds and inputs *)

\* the days on which a script run can happen: NumTodays days from a Monday
NumTodays == 7
FirstToday == ymd2ord(2025, 3, 10)
Todays == FirstToday..(FirstToday + NumTodays - 1)

\* the turns of one session
MaxTurns == 2

\* the rows of the loaded table
MaxEvents == 3

\* the phrases of one utterance
MaxPhrases == 2

EventPool ==
    << [Event |-> "Open Mic", Category |-> "Karaoke & Open Mic", Date |-> ymd2ord(2025, 3, 18),
        Time |-> "21:00:00", Location |-> "Flicker", Price |-> [kind |-> "number", cents |-> 0]],
       [Event |-> "Jazz Night", Category |-> "Music", Date |-> ymd2ord(2025, 3, 15),
        Time |-> "19:30:00", Location |-> "The Foundry", Price |-> [kind |-> "number", cents |-> 1250]],
       [Event |-> "Improv", Category |-> "comedy", Date |-> ymd2ord(2025, 3, 15),
        Time |-> "09:05:00", Location |-> "40 Watt", Price |-> [kind |-> "text", text |-> "Donation"]],
       [Event |-> "Sing Along", Category |-> "Karaoke & Open Mic", Date |-> ymd2ord(2025, 3, 15),
        Time |-> "19:30:00", Location |-> "Hendershots", Price |-> [kind |-> "number", cents |-> 500]],
       [Event |-> "Late Set", Category |-> "Music", Date |-> ymd2ord(2025, 3, 15),
        Time |-> "nan", Location |-> "Georgia Theatre", Price |-> [kind |-> "number", cents |-> 2000]],
       [Event |-> "Brass Band", Category |-> "MUSIC", Date |-> ymd2ord(2025, 3, 17),
        Time |-> "08:00:00", Location |-> "Nowhere Bar", Price |-> [kind |-> "nan"]] >>

\* the tables a run can have loaded: no rows, or the first MaxEvents rows of the pool
Tables ==
    {<<>>, SubSeq(EventPool, 1, IF MaxEvents < Len(EventPool) THEN MaxEvents ELSE Len(EventPool))}

\* the sheet that loads as a table
Sheet(table) ==
    [i \in 1..Len(table) |-> [table[i] EXCEPT !.Date = [kind |-> "date", date |-> table[i].Date]]]

Datasets == {Sheet(table) : table \in Tables}

\* the rows a sheet is made of in SpecLookup: the pool, a row whose Date is
\* text that is no date, and a row whose Date is empty
SheetPool ==
    Sheet(EventPool) \o
    << [Event |-> "Mystery Show", Category |-> "Music", Date |-> [kind |-> "text", text |-> "TBA"],
        Time |-> "20:00:00", Location |-> "Flicker", Price |-> [kind |-> "number", cents |-> 1000]],
       [Event |-> "Pop Up", Category |-> "Comedy", Date |-> [kind |-> "empty"],
        Time |-> "18:00:00", Location |-> "40 Watt", Price |-> [kind |-> "number", cents |-> 0]] >>

\* the sheets of at most MaxEvents different rows of SheetPool, in every order
LookupDatasets ==
    UNION {{[i \in 1..n |-> SheetPool[pick[i]]] :
               pick \in {p \in [1..n -> 1..Len(SheetPool)] :
                            \A i, j \in 1..n : i < j => p[i] # p[j]}} : n \in 0..MaxEvents}

\* the day of the runs of SpecLookup, a Thursday
LookupToday == ymd2ord(2025, 3, 13)

\* the utterances of SpecLookup: the category keywords alone and together, for
\* one day and for the week
LookupUtterances ==
    {"3/15/2025", "karaoke 3/15/2025", "live music 3/15/2025", "concert 3/15/2025",
     "Comedy 3/15/2025", "karaoke or music 3/15/2025", "music or karaoke 3/15/2025",
     "concert or comedy 3/15/2025", "comedy karaoke 3/15/2025",
     "next week", "karaoke next week", "comedy or music next week", "comedy next week", "hi"}

Phrases ==
    {"tomorrow", "later", "that day", "next week", "Friday", "monday", "3/15/2025",
     "13/1/2025", "1/2/202", "3/9/25", "weekend", "karaoke", "hi"}

\* the utterances of at most n phrases, joined by blanks
RECURSIVE UtterancesOf(_)
UtterancesOf(n) ==
    IF n <= 1 THEN Phrases
    ELSE UtterancesOf(n - 1) \cup {u \o " " \o p : u \in UtterancesOf(n - 1), p \in Phrases}

\* every weekday by name, alone and beside another keyword
DayUtterances ==
    {"on " \o days[i] : i \in 1..Len(days)}
        \cup {"Sunday or tuesday", "wednesday weekend", "thursday 3/15/2025", "SATURDAY?"}

Utterances == UtterancesOf(MaxPhrases) \cup DayUtterances

\* the utterances of a session of several turns
SessionUtterances ==
    {"hi", "what about later", "other events tomorrow", "karaoke next week"}

\* the utterances of the turn that came before, in SpecResolve
SeedUtterances == {"on 4/1/2025"}

\* what chat_engine.chat returns
Responses == {"Sure."}

\* chat_engine.chat raised
ChatRaised == "<raised>"

\* no utterance: st.chat_input returned None
NoPrompt == ""

-----------------------------------------------------------------------------
(* The script run: lines 198 to 259 *)

\* RunWithPrompt with line 208 under "if last_target_date is None": a date once
\* remembered stays
RunWithPrompt_keeps_last(data, now, msgs, last, u, reply) ==
    LET df == load_events(data)
        target == determine_target_date(u, now, last)
        context == build_dataset_context(df, u, target)
        header == build_date_context_text(u, now, target)
        history == build_conversation_history(msgs)
    IN  [dataset |-> data,
         events_df |-> df,
         current_date |-> now,
         messages |-> IF reply = ChatRaised
                      THEN Append(msgs, [role |-> "user", content |-> u])
                      ELSE msgs \o << [role |-> "user", content |-> u],
                                      [role |-> "assistant", content |-> reply] >>,
         last_target_date |-> IF last # NoneDate THEN last ELSE target,
         prompt |-> u,
         target_date |-> target,
         dataset_context |-> context,
         last_target_date_before |-> last,
         date_context_text |-> header,
         conversation_history |-> history,
         full_prompt |-> build_full_prompt(custom_instructions(now, header, context), history, u)]

\* RunWithPrompt whose lookups sort events_df itself instead of the filtered copy
RunWithPrompt_sorts_in_place(data, now, msgs, last, u, reply) ==
    LET df == load_events(data)
        target == determine_target_date(u, now, last)
        context == build_dataset_context(df, u, target)
        header == build_date_context_text(u, now, target)
        history == build_conversation_history(msgs)
    IN  [dataset |-> data,
         events_df |-> sort_values(df),
         current_date |-> now,
         messages |-> IF reply = ChatRaised
                      THEN Append(msgs, [role |-> "user", content |-> u])
                      ELSE msgs \o << [role |-> "user", content |-> u],
                                      [role |-> "assistant", content |-> reply] >>,
         last_target_date |-> target,
         prompt |-> u,
         target_date |-> target,
         dataset_context |-> context,
         last_target_date_before |-> last,
         date_context_text |-> header,
         conversation_history |-> history,
         full_prompt |-> build_full_prompt(custom_instructions(now, header, context), history, u)]

\* RunWithPrompt whose context carries the latest entry of the history along
RunWithPrompt_context_from_history(data, now, msgs, last, u, reply) ==
    LET df == load_events(data)
        target == determine_target_date(u, now, last)
        context == IF msgs = <<>> THEN build_dataset_context(df, u, target)
                   ELSE build_dataset_context(df, u, target) \o msgs[Len(msgs)].content
        header == build_date_context_text(u, now, target)
        history == build_conversation_history(msgs)
    IN  [dataset |-> data,
         events_df |-> df,
         current_date |-> now,
         messages |-> IF reply = ChatRaised
                      THEN Append(msgs, [role |-> "user", content |-> u])
                      ELSE msgs \o << [role |-> "user", content |-> u],
                                      [role |-> "assistant", content |-> reply] >>,
         last_target_date |-> target,
         prompt |-> u,
         target_date |-> target,
         dataset_context |-> context,
         last_target_date_before |-> last,
         date_context_text |-> header,
         conversation_history |-> history,
         full_prompt |-> build_full_prompt(custom_instructions(now, header, context), history, u)]

\* the state left by a run that an exception out of determine_target_date
\* ends at line 207: nothing of st.session_state is written
EndedAtLine207(data, now, msgs, last, u) ==
    [dataset |-> data, events_df |-> load_events(data), current_date |-> now, messages |-> msgs,
     last_target_date |-> last, prompt |-> u, target_date |-> ValueError,
     dataset_context |-> "", last_target_date_before |-> last,
     date_context_text |-> "", conversation_history |-> "", full_prompt |-> ""]

\* the state a run with an utterance leaves, from the state it starts in
RunWithPrompt(data, now, msgs, last, u, reply) ==
    LET df == load_events(data)
        target == determine_target_date(u, now, last)
        context == build_dataset_context(df, u, target)
        header == build_date_context_text(u, now, target)
        history == build_conversation_history(msgs)
    IN  IF target = ValueError THEN EndedAtLine207(data, now, msgs, last, u) ELSE
        [dataset |-> data,
         events_df |-> df,
         current_date |-> now,
         messages |-> IF reply = ChatRaised
                      THEN Append(msgs, [role |-> "user", content |-> u])
                      ELSE msgs \o << [role |-> "user", content |-> u],
                                      [role |-> "assistant", content |-> reply] >>,
         last_target_date |-> target,
         prompt |-> u,
         target_date |-> target,
         dataset_context |-> context,
         last_target_date_before |-> last,
         date_context_text |-> header,
         conversation_history |-> history,
         full_prompt |-> build_full_prompt(custom_instructions(now, header, context), history, u)]

\* st.session_state of a browser session in which no script has run an utterance
NewSession == [messages |-> <<>>, last_target_date |-> NoneDate]

\* no run is remembered
NoRun ==
    [prompt |-> NoPrompt, current_date |-> NoneDate, last_target_date |-> NoneDate, events_df |-> <<>>,
     target_date |-> NoneDate, dataset_context |-> "", conversation_history |-> ""]

\* app.py: the flag was never assigned; no branch was taken
Unset == "unset"
NoBranch == "none"

\* the state st of a run in the first browser session; the second browser
\* session is new, no run is remembered and app.py has run no utterance
StateIs(st) ==
    /\ session = 1
    /\ other_session = NewSession
    /\ remembered_run = NoRun
    /\ app_messages = <<>>
    /\ date_plan_context = Unset
    /\ app_prompt = NoPrompt
    /\ app_branch = NoBranch
    /\ app_flag_set = FALSE
    /\ dataset = st.dataset
    /\ events_df = st.events_df
    /\ current_date = st.current_date
    /\ messages = st.messages
    /\ last_target_date = st.last_target_date
    /\ prompt = st.prompt
    /\ target_date = st.target_date
    /\ dataset_context = st.dataset_context
    /\ last_target_date_before = st.last_target_date_before
    /\ date_context_text = st.date_context_text
    /\ conversation_history = st.conversation_history
    /\ full_prompt = st.full_prompt

NextStateIs(st) ==
    /\ dataset' = st.dataset
    /\ events_df' = st.events_df
    /\ current_date' = st.current_date
    /\ messages' = st.messages
    /\ last_target_date' = st.last_target_date
    /\ prompt' = st.prompt
    /\ target_date' = st.target_date
    /\ dataset_context' = st.dataset_context
    /\ last_target_date_before' = st.last_target_date_before
    /\ date_context_text' = st.date_context_text
    /\ conversation_history' = st.conversation_history
    /\ full_prompt' = st.full_prompt

\* a new session: lines 26 to 37, and a first run without an utterance
Fresh(data, now) ==
    [dataset |-> data, events_df |-> load_events(data), current_date |-> now, messages |-> <<>>,
     last_target_date |-> NoneDate, prompt |-> NoPrompt, target_date |-> NoneDate,
     dataset_context |-> "", last_target_date_before |-> NoneDate,
     date_context_text |-> "", conversation_history |-> "", full_prompt |-> ""]

\* the clock does not run backwards between two runs
Clock == {now \in Todays : now = current_date \/ now = current_date + 1}

TurnCount == Cardinality({i \in 1..Len(messages) : messages[i].role = "user"})

\* a run with utterance u, answered by the chat engine
Turn(u, now, reply) ==
    /\ TurnCount < MaxTurns
    /\ ~to_datetime_raises(dataset)
    /\ NextStateIs(RunWithPrompt(dataset, now, messages, last_target_date, u, reply))
    /\ UNCHANGED <<session_vars, app_vars>>

\* a run with utterance u in which chat_engine.chat raises
TurnChatRaises(u, now) ==
    /\ TurnCount < MaxTurns
    /\ ~to_datetime_raises(dataset)
    /\ NextStateIs(RunWithPrompt(dataset, now, messages, last_target_date, u, ChatRaised))
    /\ UNCHANGED <<session_vars, app_vars>>

\* Rerun with lines 36 and 37 assigning None in every run
Rerun_forgets(now) ==
    /\ NextStateIs([Fresh(dataset, now) EXCEPT !.messages = messages])
    /\ UNCHANGED <<session_vars, app_vars>>

\* a run without an utterance: the script only redraws the page
Rerun(now) ==
    /\ NextStateIs([Fresh(dataset, now) EXCEPT !.messages = messages,
                                                   !.last_target_date = last_target_date,
                                                   !.last_target_date_before = last_target_date])
    /\ UNCHANGED <<session_vars, app_vars>>

Init == \E data \in Datasets, now \in Todays : StateIs(Fresh(data, now))

Next ==
    \/ \E u \in SessionUtterances, now \in Clock, reply \in Responses : Turn(u, now, reply)
    \/ \E u \in SessionUtterances, now \in Clock : TurnChatRaises(u, now)
    \/ \E now \in Clock : Rerun(now)

Spec == Init /\ [][Next]_vars

\* One turn on every utterance of Utterances, in a new session or after one
\* earlier turn that left a date in last_target_date.
InitResolve ==
    \E data \in Datasets, now \in Todays :
        \/ StateIs(Fresh(data, now))
        \/ \E seed \in SeedUtterances, reply \in Responses :
               StateIs(RunWithPrompt(data, now, <<>>, NoneDate, seed, reply))

NextResolve ==
    \E u \in Utterances, reply \in Responses :
        prompt \in SeedUtterances \cup {NoPrompt} /\ Turn(u, current_date, reply)

SpecResolve == InitResolve /\ [][NextResolve]_vars

\* One turn on LookupToday over every sheet of LookupDatasets.
InitLookup == \E data \in LookupDatasets : StateIs(Fresh(data, LookupToday))

NextLookup ==
    \E u \in LookupUtterances, reply \in Responses :
        prompt = NoPrompt /\ Turn(u, current_date, reply)

SpecLookup == InitLookup /\ [][NextLookup]_vars

-----------------------------------------------------------------------------
(* Two browser sessions.  Streamlit keeps one st.session_state per browser  *)
(* session and runs the script for one session at a time.                  *)

\* the script runs with an utterance, of both sessions together
MaxRuns == 3

\* what chat_engine.chat returns in the runs of two sessions
SessionResponses == {"Sure.", "Here you go."}

TwoSessionUtterances == {"what about later", "other events tomorrow", "karaoke next week"}

\* st.session_state with the store of the latest run's session for every session
session_state_shared(s) == [messages |-> messages, last_target_date |-> last_target_date]

\* st.session_state as a run in browser session s reads it: the store of s
session_state(s) ==
    IF s = session THEN [messages |-> messages, last_target_date |-> last_target_date]
    ELSE other_session

\* the latest run with an utterance: what it read and what it computed
LatestRun ==
    [prompt |-> prompt, current_date |-> current_date, last_target_date |-> last_target_date_before,
     events_df |-> events_df, target_date |-> target_date, dataset_context |-> dataset_context,
     conversation_history |-> conversation_history]

RunCount ==
    Cardinality({i \in 1..Len(messages) : messages[i].role = "user"})
        + Cardinality({i \in 1..Len(other_session.messages) : other_session.messages[i].role = "user"})

\* a run with utterance u in browser session s; remember tells whether the run
\* it replaces as the latest becomes the remembered one
RunIn(s, u, reply, remember) ==
    /\ RunCount < MaxRuns
    /\ ~to_datetime_raises(dataset)
    /\ NextStateIs(RunWithPrompt(dataset, current_date, session_state(s).messages,
                                 session_state(s).last_target_date, u, reply))
    /\ session' = s
    /\ other_session' = IF s = session THEN other_session
                        ELSE [messages |-> messages, last_target_date |-> last_target_date]
    /\ remembered_run' = IF remember /\ prompt # NoPrompt THEN LatestRun ELSE remembered_run
    /\ UNCHANGED app_vars

InitSessions ==
    \E data \in Datasets : data # <<>> /\ StateIs(Fresh(data, LookupToday))

NextSessions ==
    \E s \in {1, 2}, u \in TwoSessionUtterances, reply \in SessionResponses, remember \in BOOLEAN :
        RunIn(s, u, reply, remember)

SpecSessions == InitSessions /\ [][NextSessions]_vars

-----------------------------------------------------------------------------
(* app.py: the user input and response, lines 229 to 343 *)

\* the runs of app.py with an utterance
MaxAppTurns == 3

AppUtterances == {"Plan a date", "make it cheaper", "hi"}

\* AppTurn without the reset of lines 341 to 343
AppTurn_no_reset(u, reply) ==
    LET plan == Contains(lower(u), "plan a date")
        update == ~plan /\ date_plan_context = "True"
        answered == reply # ChatRaised
    IN  /\ Cardinality({i \in 1..Len(app_messages) : app_messages[i].role = "user"}) < MaxAppTurns
        /\ app_messages' =
               IF answered
               THEN app_messages \o << [role |-> "user", content |-> u],
                                       [role |-> "assistant", content |-> reply] >>
               ELSE Append(app_messages, [role |-> "user", content |-> u])
        /\ app_prompt' = u
        /\ app_branch' = IF plan THEN "plan" ELSE IF update THEN "update" ELSE "query"
        /\ app_flag_set' = (plan /\ answered)
        /\ date_plan_context' =
               IF plan /\ answered THEN "True"
               ELSE IF ~plan /\ ~update /\ answered THEN "False"
               ELSE date_plan_context
        /\ UNCHANGED <<run_vars, session_vars>>

\* a run of app.py with utterance u; the chat engine returns reply or raises,
\* and every branch catches what it raises.  The weekend events of the "plan a
\* date" branch change the text sent to the chat engine only.
AppTurn(u, reply) ==
    LET plan == Contains(lower(u), "plan a date")
        update == ~plan /\ date_plan_context = "True"
        answered == reply # ChatRaised
    IN  /\ Cardinality({i \in 1..Len(app_messages) : app_messages[i].role = "user"}) < MaxAppTurns
        /\ app_messages' =
               IF answered
               THEN app_messages \o << [role |-> "user", content |-> u],
                                       [role |-> "assistant", content |-> reply] >>
               ELSE Append(app_messages, [role |-> "user", content |-> u])
        /\ app_prompt' = u
        /\ app_branch' = IF plan THEN "plan" ELSE IF update THEN "update" ELSE "query"
        /\ app_flag_set' = (plan /\ answered)
        /\ date_plan_context' =
               IF ~plan THEN "False"
               ELSE IF answered THEN "True"
               ELSE date_plan_context
        /\ UNCHANGED <<run_vars, session_vars>>

InitApp == StateIs(Fresh(<<>>, FirstToday))

NextApp == \E u \in AppUtterances, reply \in Responses \cup {ChatRaised} : AppTurn(u, reply)

SpecApp == InitApp /\ [][NextApp]_vars

-----------------------------------------------------------------------------
(* What the properties below say about the latest run *)

\* the latest run had an utterance
Asked == prompt # NoPrompt

Q == lower(prompt)

HasTomorrow == Contains(Q, "tomorrow")

\* utterance u has a trigger phrase of the anaphora rule
HasAnaphoraIn(u) ==
    LET q == lower(u)
    IN  Contains(q, "that day") \/ Contains(q, "later") \/ Contains(q, "other") \/ Contains(q, "that night")

HasAnaphora == HasAnaphoraIn(prompt)

\* the anaphora rule can apply: a trigger phrase, and a date remembered from before
AnaphoraHit == last_target_date_before # NoneDate /\ HasAnaphora

HasNextWeek == Contains(Q, "next week")

HasWeekend == Contains(Q, "weekend")

WeekdayWords == <<"monday", "tuesday", "wednesday", "thursday", "friday", "saturday", "sunday">>

NamedWeekdays == {i \in 0..6 : Contains(Q, WeekdayWords[i + 1])}

\* the weekday (Monday = 0) the named-weekday rule goes by: the first in the fixed order
NamedWeekday == CHOOSE i \in NamedWeekdays : \A h \in NamedWeekdays : i <= h

\* the first substring of the utterance of the form digits/digits/digits, "" for none
FirstLiteral == re_search_date(prompt)

\* it is a date in the 4-digit-year or in the 2-digit-year form
FirstLiteralValid == FirstLiteral # "" /\ parse_date_literal(FirstLiteral) # ValueError

\* the Monday strictly after today, the Saturday of today's Monday-to-Sunday week
MondayAfter(today) == CHOOSE m \in (today + 1)..(today + 7) : weekday(m) = 0

SaturdayOfWeek(today) ==
    CHOOSE d \in (today - weekday(today))..(today - weekday(today) + 6) : weekday(d) = 5

\* a rule above the named rule decides
AboveNextWeek == HasTomorrow \/ AnaphoraHit
AboveWeekday == AboveNextWeek \/ HasNextWeek
AboveLiteral == AboveWeekday \/ NamedWeekdays # {}
AboveWeekend == AboveLiteral \/ FirstLiteralValid

\* the category the keyword table selects for the utterance, "" for none
AskedCategory ==
    IF Contains(Q, "karaoke") THEN "Karaoke & Open Mic"
    ELSE IF Contains(Q, "music") \/ Contains(Q, "concert") THEN "Music"
    ELSE IF Contains(Q, "comedy") THEN "Comedy"
    ELSE ""

\* the context of a single-day lookup on day d
SingleDayLookup(d) ==
    IF AskedCategory = "" THEN get_events_for_date_range(events_df, d)
    ELSE get_events_for_category_and_date(events_df, AskedCategory, d)

\* one day of a grouped context: its heading, then its records or the marker
GroupedDay(d) ==
    LET OnDay(row) ==
            /\ row.Date = d
            /\ AskedCategory # "" => lower(row.Category) = lower(AskedCategory)
    IN  strftime(d) \o ":\n"
            \o (IF SelectSeq(events_df, OnDay) = <<>> THEN "No events." ELSE SingleDayLookup(d))
            \o "\n"

\* the grouped context of the seven days from d on
SevenDays(d) ==
    GroupedDay(d) \o GroupedDay(d + 1) \o GroupedDay(d + 2) \o GroupedDay(d + 3)
        \o GroupedDay(d + 4) \o GroupedDay(d + 5) \o GroupedDay(d + 6)

\* a grouped context has day headings, a single-day context has none
IsGrouped(context) == Contains(context, ":\n")

\* the date the rules give in the order "tomorrow", anaphora, "next week", named
\* weekday, date literal, weekend, default, the first that matches deciding
RuleOrderDate(u, today, last) ==
    LET q == lower(u)
        named == {i \in 0..6 : Contains(q, WeekdayWords[i + 1])}
        literal == re_search_date(u)
    IN  IF Contains(q, "tomorrow") THEN today + 1
        ELSE IF last # NoneDate /\ HasAnaphoraIn(u) THEN last
        ELSE IF Contains(q, "next week") THEN MondayAfter(today)
        ELSE IF named # {}
             THEN CHOOSE d \in today..(today + 6) :
                      weekday(d) = CHOOSE i \in named : \A h \in named : i <= h
        ELSE IF literal # "" /\ parse_date_literal(literal) # ValueError
             THEN parse_date_literal(literal)
        ELSE IF Contains(q, "weekend") THEN SaturdayOfWeek(today)
        ELSE today

-----------------------------------------------------------------------------
(* C1 *)

-----------------------------------------------------------------------------
(* C2 *)

-----------------------------------------------------------------------------
(* C3 *)

\* C3 as stated: every turn with "next week" in the utterance resolves to the
\* Monday strictly after today and its context is grouped over the seven days
\* from that Monday to the Sunday after it.
C3_NextWeekAlways ==
    Asked /\ HasNextWeek =>
        /\ target_date = MondayAfter(current_date)
        /\ dataset_context = SevenDays(MondayAfter(current_date))

\* C3 amended: a turn with "next week" in the utterance, without "tomorrow" and
\* without an anaphora hit, resolves to the Monday strictly after today
\* (today + (7 - weekday(today))), and build_dataset_context iterates exactly the
\* seven days from that Monday to the following Sunday.
C3_NextWeekRange ==
    Asked /\ HasNextWeek /\ ~AboveNextWeek =>
        /\ target_date = current_date + (7 - weekday(current_date))
        /\ target_date = MondayAfter(current_date)
        /\ weekday(target_date + 6) = 6
        /\ dataset_context = SevenDays(target_date)
        /\ \A d \in (target_date - 1)..(target_date + 7) :
               Contains(dataset_context, strftime(d) \o ":\n")
                   <=> (target_date <= d /\ d <= target_date + 6)

C3_Witness ==
    /\ Asked /\ HasNextWeek /\ ~AboveNextWeek
    /\ weekday(current_date) = 0
    /\ target_date = current_date + 7
    /\ last_target_date_before # NoneDate
    /\ events_df # <<>>
    /\ dataset_context = SevenDays(current_date + 7)

-----------------------------------------------------------------------------
(* C4 *)

\* text, of the form digits/digits/digits, is a valid M/D/YYYY literal
ValidMDY(text) ==
    /\ text # ""
    /\ Len(YearText(text)) = 4
    /\ ParseInt(YearText(text)) >= 1
    /\ ParseInt(MonthText(text)) \in 1..12
    /\ ParseInt(DayText(text)) >= 1
    /\ ParseInt(DayText(text)) <= days_in_month(ParseInt(YearText(text)), ParseInt(MonthText(text)))

\* date d is the date that the literal text denotes
Denotes(text, d) ==
    /\ d >= 1
    /\ YearOf(d) = ParseInt(YearText(text))
    /\ MonthOf(d) = ParseInt(MonthText(text))
    /\ DayOf(d) = ParseInt(DayText(text))

\* C4 as stated: an utterance that contains a valid M/D/YYYY literal resolves to
\* the date the literal denotes, whatever else it contains.
C4_LiteralAlways ==
    Asked =>
        \A i \in 1..Len(prompt) :
            ValidMDY(MatchAt(prompt, i)) =>
                \E h \in 1..Len(prompt) :
                    ValidMDY(MatchAt(prompt, h)) /\ Denotes(MatchAt(prompt, h), target_date)

\* C4 amended: when no rule above the date-literal rule matches (no "tomorrow", no
\* anaphora hit, no "next week", no weekday name) and the first substring of the
\* form digits/digits/digits is a valid M/D/YYYY literal denoting d, the result
\* is exactly d.
C4_LiteralDate ==
    Asked /\ ~AboveLiteral /\ ValidMDY(FirstLiteral) => Denotes(FirstLiteral, target_date)

C4_Witness ==
    /\ Asked /\ ~AboveLiteral /\ HasWeekend
    /\ FirstLiteral = "3/15/2025"
    /\ YearOf(target_date) = 2025 /\ MonthOf(target_date) = 3 /\ DayOf(target_date) = 15
    /\ target_date # current_date

-----------------------------------------------------------------------------
(* C5 *)

\* C5: when the named-weekday rule decides, the result d has today <= d <=
\* today + 6 and falls on the named weekday; when the named weekday is the
\* weekday of today, d is today.
C5_NamedWeekday ==
    Asked /\ ~AboveWeekday /\ NamedWeekdays # {} =>
        /\ current_date <= target_date
        /\ target_date <= current_date + 6
        /\ weekday(target_date) = NamedWeekday
        /\ (NamedWeekday = weekday(current_date) => target_date = current_date)

C5_Witness ==
    /\ Asked /\ ~AboveWeekday /\ NamedWeekdays # {}
    /\ NamedWeekday = weekday(current_date)
    /\ target_date = current_date

-----------------------------------------------------------------------------
(* C6 *)

\* C6: an utterance with "tomorrow" and no anaphora trigger resolves to
\* today + 1 day, whatever keywords of the later rules it also has.
C6_Tomorrow ==
    Asked /\ HasTomorrow /\ ~HasAnaphora => target_date = current_date + 1

C6_Witness ==
    /\ Asked /\ HasTomorrow /\ ~HasAnaphora
    /\ HasNextWeek \/ NamedWeekdays # {} \/ FirstLiteralValid \/ HasWeekend
    /\ target_date = current_date + 1

-----------------------------------------------------------------------------
(* C7 *)

\* C7: "weekend" with no rule above it matching resolves to
\* today + (5 - weekday(today)), the Saturday of today's Monday-to-Sunday week,
\* and the context is a single-day lookup for that Saturday; on Thursday
\* 2025-03-13 it is Saturday 2025-03-15.
C7_Weekend ==
    Asked /\ HasWeekend /\ ~AboveWeekend =>
        /\ target_date = current_date + (5 - weekday(current_date))
        /\ target_date = SaturdayOfWeek(current_date)
        /\ dataset_context = SingleDayLookup(target_date)
        /\ ~IsGrouped(dataset_context)
        /\ (current_date = ymd2ord(2025, 3, 13) => target_date = ymd2ord(2025, 3, 15))

C7_Witness ==
    /\ Asked /\ HasWeekend /\ ~AboveWeekend
    /\ current_date = ymd2ord(2025, 3, 13)
    /\ weekday(current_date) = 3
    /\ target_date = ymd2ord(2025, 3, 15)
    /\ events_df # <<>>
    /\ ~startswith(dataset_context, "No ")

-----------------------------------------------------------------------------
(* C8 *)

\* no rule of determine_target_date matches
NoRuleMatches == ~AboveWeekend /\ ~HasWeekend

\* C8: determine_target_date returns a date for every utterance, today and
\* last_target_date, and never raises; when no rule matches it returns today.
C8_Total ==
    Asked =>
        /\ target_date # ValueError
        /\ target_date >= 1
        /\ (NoRuleMatches => target_date = current_date)

C8_Witness ==
    /\ Asked /\ NoRuleMatches
    /\ FirstLiteral # ""
    /\ HasAnaphora
    /\ target_date = current_date

-----------------------------------------------------------------------------
(* C9 *)

\* the first literal is a date in neither form
FirstLiteralBad ==
    /\ FirstLiteral # ""
    /\ strptime_Y(FirstLiteral) = ValueError
    /\ strptime_y(FirstLiteral) = ValueError

\* C9: when the date-literal rule is reached and the first substring of the form
\* digits/digits/digits is a date in neither the 4-digit-year nor the
\* 2-digit-year form, the rule is skipped without raising: the result is the
\* weekend Saturday if "weekend" is present, and today otherwise.
C9_BadLiteralSkipped ==
    Asked /\ ~AboveLiteral /\ FirstLiteralBad =>
        /\ target_date # ValueError
        /\ target_date = IF HasWeekend THEN SaturdayOfWeek(current_date) ELSE current_date

C9_Witness ==
    /\ Asked /\ ~AboveLiteral /\ FirstLiteralBad
    /\ HasWeekend
    /\ target_date = SaturdayOfWeek(current_date)
    /\ target_date # current_date

-----------------------------------------------------------------------------
(* C10 *)

\* C10: on every turn where the anaphora rule decides the target date, the
\* context is a single-day lookup on last_target_date, also when the utterance
\* has "next week" as well.
C10_AnaphoraSingleDay ==
    Asked /\ AnaphoraHit /\ ~HasTomorrow =>
        /\ target_date = last_target_date_before
        /\ dataset_context = SingleDayLookup(last_target_date_before)
        /\ ~IsGrouped(dataset_context)

-----------------------------------------------------------------------------
(* C11 *)

\* C11: no run changes or removes an entry of messages, a run without an
\* utterance appends nothing, and every run with an utterance appends exactly
\* two entries, the user message with the utterance and then the assistant
\* message, also when the call of the chat engine fails.
C11_TwoEntriesPerTurn ==
    [][/\ Len(messages') >= Len(messages)
       /\ SubSeq(messages', 1, Len(messages)) = messages
       /\ prompt' = NoPrompt => messages' = messages
       /\ prompt' # NoPrompt =>
              /\ Len(messages') = Len(messages) + 2
              /\ messages'[Len(messages) + 1] = [role |-> "user", content |-> prompt']
              /\ messages'[Len(messages) + 2].role = "assistant"]_vars

-----------------------------------------------------------------------------
(* C12 *)

\* the utterance has no keyword of any rule
NoKeyword ==
    /\ ~HasTomorrow /\ ~HasAnaphora /\ ~HasNextWeek /\ NamedWeekdays = {}
    /\ FirstLiteral = "" /\ ~HasWeekend

\* C12: after every run with an utterance last_target_date is the target date
\* of that run, whatever it held before: when the next-week rule decides, the
\* Monday that starts the range and not the Sunday that ends it, and today
\* when the utterance has no keyword.
C12_LastTargetOverwritten ==
    Asked =>
        /\ last_target_date = target_date
        /\ last_target_date = RuleOrderDate(prompt, current_date, last_target_date_before)
        /\ HasNextWeek /\ ~AboveNextWeek =>
               /\ last_target_date = MondayAfter(current_date)
               /\ weekday(last_target_date) = 0
        /\ NoKeyword => last_target_date = current_date

C12_Witness ==
    /\ Asked /\ HasNextWeek /\ ~AboveNextWeek
    /\ last_target_date_before # NoneDate
    /\ last_target_date_before # last_target_date
    /\ last_target_date = MondayAfter(current_date)

-----------------------------------------------------------------------------
(* C13 *)

\* the ordered table of keywords and categories
CategoryTable ==
    << [keywords |-> {"karaoke"}, category |-> "Karaoke & Open Mic"],
       [keywords |-> {"music", "concert"}, category |-> "Music"],
       [keywords |-> {"comedy"}, category |-> "Comedy"] >>

\* the entries of the table with a keyword in the utterance
TableHits == {i \in 1..Len(CategoryTable) : \E k \in CategoryTable[i].keywords : Contains(Q, k)}

\* the category of the first entry that matches, "" when none matches
TableCategory ==
    IF TableHits = {} THEN ""
    ELSE CategoryTable[CHOOSE i \in TableHits : \A h \in TableHits : i <= h].category

\* the days the context of the latest run covers: the week from the target date
\* on for an utterance with "next week", the target date otherwise
DaysLookedUp == IF HasNextWeek THEN target_date..(target_date + 6) ELSE {target_date}

\* the line of row is in the context
Emitted(row) == row.Date # NaT /\ Contains(dataset_context, event_line(row))

\* C13: the category filter is chosen from the utterance by the first match of
\* the table "karaoke" -> "Karaoke & Open Mic", "music" or "concert" ->
\* "Music", "comedy" -> "Comedy"; with no match there is no filter.  A record
\* of the table is in the context exactly when its date is among the days
\* looked up and, with a filter, its category is the chosen one (letter case
\* apart), for a single day and for the week of "next week" alike.
C13_CategoryTable ==
    Asked =>
        \A i \in 1..Len(events_df) :
            Emitted(events_df[i]) <=>
                /\ events_df[i].Date \in DaysLookedUp
                /\ TableCategory # "" => lower(events_df[i].Category) = lower(TableCategory)

C13_Witness ==
    /\ Asked /\ ~HasNextWeek
    /\ Contains(Q, "karaoke") /\ Contains(Q, "music")
    /\ Contains(dataset_context, "Sing Along")
    /\ ~Contains(dataset_context, "Jazz Night")
    /\ \E i \in 1..Len(events_df) : events_df[i].Event = "Jazz Night"

-----------------------------------------------------------------------------
(* C14 *)

\* where part occurs in text: the positions of its first character
Positions(text, part) ==
    {i \in 1..(Len(text) - Len(part) + 1) : SubSeq(text, i, i + Len(part) - 1) = part}

FirstPosition(text, part) ==
    CHOOSE i \in Positions(text, part) : \A h \in Positions(text, part) : i <= h

\* the heading of day d in a grouped context
Heading(d) == strftime(d) \o ":\n"

\* the rows of the table that match day d and the category filter of the utterance
Matching(d) ==
    {i \in 1..Len(events_df) :
        /\ events_df[i].Date = d
        /\ TableCategory # "" => lower(events_df[i].Category) = lower(TableCategory)}

\* the text of a grouped context from the end of the heading of day d to the
\* next heading, or to the end after the last day
Segment(d, last_day) ==
    SubSeq(dataset_context,
           FirstPosition(dataset_context, Heading(d)) + Len(Heading(d)),
           IF d = last_day THEN Len(dataset_context)
           ELSE FirstPosition(dataset_context, Heading(d + 1)) - 1)

RECURSIVE LineLengths(_)
LineLengths(rows) ==
    IF rows = {} THEN 0
    ELSE LET i == CHOOSE r \in rows : TRUE
         IN  Len(event_line(events_df[i])) + LineLengths(rows \ {i})

\* C14: the context of a range query is grouped per day: one heading for each
\* of the seven days from the target date on and no other heading, in ascending
\* order of the days, each followed by the lines of the records that match
\* that day and the category filter, or by the marker "No events." exactly when
\* no record matches.  For "karaoke next week" on 2025-03-13 the days are
\* 2025-03-17 to 2025-03-23 and the filter is "Karaoke & Open Mic".
C14_GroupedPerDay ==
    Asked /\ HasNextWeek =>
        LET first_day == target_date
            last_day == target_date + 6
        IN  /\ \A d \in first_day..last_day : Cardinality(Positions(dataset_context, Heading(d))) = 1
            /\ Cardinality(Positions(dataset_context, ":\n")) = 7
            /\ FirstPosition(dataset_context, Heading(first_day)) = 1
            /\ \A d \in first_day..(last_day - 1) :
                   FirstPosition(dataset_context, Heading(d))
                       < FirstPosition(dataset_context, Heading(d + 1))
            /\ \A d \in first_day..last_day :
                   /\ Matching(d) = {} <=> Segment(d, last_day) = "No events.\n"
                   /\ Matching(d) # {} =>
                          /\ ~Contains(Segment(d, last_day), "No events.")
                          /\ \A i \in Matching(d) : Contains(Segment(d, last_day), event_line(events_df[i]))
                          /\ Len(Segment(d, last_day)) = LineLengths(Matching(d)) + 1
            /\ prompt = "karaoke next week" /\ current_date = ymd2ord(2025, 3, 13) =>
                   /\ first_day = ymd2ord(2025, 3, 17) /\ last_day = ymd2ord(2025, 3, 23)
                   /\ TableCategory = "Karaoke & Open Mic"

C14_Witness ==
    /\ prompt = "karaoke next week" /\ current_date = ymd2ord(2025, 3, 13)
    /\ Contains(dataset_context, "Monday, March 17, 2025:\nNo events.\nTuesday, March 18, 2025:\n* Open Mic on ")
    /\ Contains(dataset_context, "Sunday, March 23, 2025:\nNo events.\n")
    /\ \E i \in 1..Len(events_df) : events_df[i].Event = "Brass Band"

-----------------------------------------------------------------------------
(* C15 *)

\* the sentence of a single-day lookup that finds nothing
NoEventsSentence(d) ==
    IF TableCategory = "" THEN "No events found for this date."
    ELSE "No " \o TableCategory \o " events found on " \o strftime(d) \o "."

\* C15 as stated: with an empty table the context of every run with an
\* utterance is exactly the no-events sentence, for a single day and for a
\* range alike.
C15_EmptyTableSentence ==
    Asked /\ events_df = <<>> => dataset_context = NoEventsSentence(target_date)

RECURSIVE EmptyDays(_, _)
EmptyDays(d, last_day) ==
    IF d > last_day THEN "" ELSE Heading(d) \o "No events.\n" \o EmptyDays(d + 1, last_day)

\* C15: with an empty table the context of a run with an utterance is never
\* empty: without "next week" in the utterance it is exactly the no-events
\* sentence of the single-day lookup, the one naming category and date when a
\* category filter is chosen, and with "next week" it is the seven headings of
\* the days from the target date on, each followed by the marker "No events.".
C15_EmptyTable ==
    Asked /\ events_df = <<>> =>
        /\ dataset_context # ""
        /\ ~HasNextWeek => dataset_context = NoEventsSentence(target_date)
        /\ HasNextWeek => dataset_context = EmptyDays(target_date, target_date + 6)

C15_Witness ==
    /\ Asked /\ events_df = <<>> /\ ~HasNextWeek
    /\ TableCategory = "Karaoke & Open Mic"
    /\ target_date # current_date
    /\ dataset_context = "No Karaoke & Open Mic events found on " \o strftime(target_date) \o "."

-----------------------------------------------------------------------------
(* C16 *)

\* C16: a single-day lookup returns a no-events sentence exactly when no
\* record of the table matches the day and the category filter: "No events
\* found for this date." without a filter, the sentence naming the category and
\* the date with one.  When a record matches, the context is the lines of the
\* matching records and is neither sentence.
C16_SentenceIffNoMatch ==
    Asked /\ ~HasNextWeek =>
        LET found == Matching(target_date) # {}
            generic == "No events found for this date."
            named == "No " \o TableCategory \o " events found on " \o strftime(target_date) \o "."
        IN  /\ ~found /\ TableCategory = "" => dataset_context = generic
            /\ ~found /\ TableCategory # "" =>
                   /\ dataset_context = named
                   /\ Contains(dataset_context, TableCategory)
                   /\ Contains(dataset_context, DayNames[weekday(target_date) + 1])
            /\ found =>
                   /\ dataset_context # generic /\ dataset_context # named
                   /\ ~startswith(dataset_context, "No ")
                   /\ startswith(dataset_context, "* ")
                   /\ \A i \in Matching(target_date) : Contains(dataset_context, event_line(events_df[i]))
                   /\ Len(dataset_context) = LineLengths(Matching(target_date))

C16_Witness ==
    /\ Asked /\ ~HasNextWeek
    /\ TableCategory = "Karaoke & Open Mic"
    /\ Matching(target_date) = {}
    /\ \E i \in 1..Len(events_df) : events_df[i].Date = target_date
    /\ dataset_context = "No Karaoke & Open Mic events found on Saturday, March 15, 2025."

-----------------------------------------------------------------------------
(* C17 *)

\* the rows of the table that match the days looked up and the category filter
AllMatching == UNION {Matching(d) : d \in DaysLookedUp}

\* the seconds since midnight of a time that parses
SecondsOf(time_str) == time_hour(time_str) * 3600 + time_minute(time_str) * 60 + time_second(time_str)

\* row i comes before row j in the order of (date, time): an earlier date; or
\* the same date and an earlier time, a time that parses being earlier than
\* one that does not; or the same date and time and an earlier place in the table
ComesBefore(i, j) ==
    LET a == events_df[i]
        b == events_df[j]
        earlier == /\ time_parses(a.Time)
                   /\ time_parses(b.Time) => SecondsOf(a.Time) < SecondsOf(b.Time)
        same == IF time_parses(a.Time)
                THEN time_parses(b.Time) /\ SecondsOf(a.Time) = SecondsOf(b.Time)
                ELSE ~time_parses(b.Time)
    IN  \/ a.Date < b.Date
        \/ a.Date = b.Date /\ earlier
        \/ a.Date = b.Date /\ same /\ i < j

\* the number of record lines in the context
LineCount ==
    Cardinality(Positions(dataset_context, "\n* ")) + (IF startswith(dataset_context, "* ") THEN 1 ELSE 0)

-----------------------------------------------------------------------------
(* C18 *)

\* what the claim has format_price return
Rendered(price) ==
    IF price.kind = "number"
    THEN IF price.cents = 0 THEN "Free"
         ELSE "$" \o IntToStr(price.cents \div 100) \o "."
                  \o IntToStr((price.cents % 100) \div 10) \o IntToStr(price.cents % 10)
    ELSE IF price.kind = "nan" THEN "nan"
    ELSE price.text

\* C18: in every record line of a context the price is "Free" for a price that
\* is the number zero, the dollar amount with exactly two decimals for any
\* other number (12.5 gives "$12.50"), and the text of the cell unchanged for a
\* price that is not a number.
C18_PriceRendering ==
    Asked =>
        \A i \in 1..Len(events_df) :
            Emitted(events_df[i]) =>
                Contains(dataset_context,
                         " at " \o events_df[i].Location \o " -- " \o Rendered(events_df[i].Price) \o "\n")

-----------------------------------------------------------------------------
(* C19 *)

\* C19: the load succeeds on every sheet and drops the rows whose Date is not a
\* date: the table is the rows of the sheet whose Date is a date, in the order
\* of the sheet, so every record of the table has a date.
C19_BadDatesDropped ==
    LET HasDate(row) == row.Date.kind = "date"
    IN  /\ ~to_datetime_raises(dataset)
        /\ Sheet(events_df) = SelectSeq(dataset, HasDate)
        /\ \A i \in 1..Len(events_df) : events_df[i].Date # NaT

-----------------------------------------------------------------------------
(* C20 *)

\* C20: no run changes the table: after every step it holds the records it
\* held before, in the same order, which is the order of the load.
C20_TableNeverMutated == [][events_df' = events_df /\ events_df' = to_datetime(dataset')]_vars

C20_Witness ==
    /\ Asked /\ Len(messages) >= 3 /\ Len(events_df) >= 3
    /\ events_df[2].Event = "Jazz Night" /\ events_df[3].Event = "Improv"
    /\ Positions(dataset_context, "* Improv on ") # {}
    /\ Positions(dataset_context, "* Jazz Night on ") # {}
    /\ FirstPosition(dataset_context, "* Improv on ") < FirstPosition(dataset_context, "* Jazz Night on ")

-----------------------------------------------------------------------------
(* C21 *)

\* C21: under every interleaving of the runs of two browser sessions, a run of
\* one session leaves the history and last_target_date of the other session as
\* they were, it reads and extends the history of its own session, and an
\* utterance that the anaphora rule decides resolves to the last target date
\* of its own session; without one it resolves as in a new session, never to
\* a date of the other session.
C21_SessionsIndependent ==
    [][LET own == IF session' = session
                  THEN [messages |-> messages, last_target_date |-> last_target_date]
                  ELSE other_session
           other == IF session' = session
                    THEN other_session
                    ELSE [messages |-> messages, last_target_date |-> last_target_date]
       IN  /\ other_session' = other
           /\ Len(messages') > Len(own.messages)
           /\ SubSeq(messages', 1, Len(own.messages)) = own.messages
           /\ last_target_date_before' = own.last_target_date
           /\ HasAnaphoraIn(prompt') /\ ~Contains(lower(prompt'), "tomorrow") =>
                  target_date' = IF own.last_target_date # NoneDate
                                 THEN own.last_target_date
                                 ELSE RuleOrderDate(prompt', current_date', NoneDate)]_vars

C21_Witness ==
    /\ Asked /\ AnaphoraHit /\ ~HasTomorrow
    /\ target_date = last_target_date_before
    /\ Len(messages) = 4
    /\ other_session.last_target_date \notin {NoneDate, target_date}

-----------------------------------------------------------------------------
(* C22 *)

\* the latest run and the remembered run read the same utterance, the same
\* today, the same last_target_date and the same table
SameInputs ==
    /\ Asked /\ remembered_run.prompt = prompt
    /\ remembered_run.current_date = current_date
    /\ remembered_run.last_target_date = last_target_date_before
    /\ remembered_run.events_df = events_df

-----------------------------------------------------------------------------
(* C23 *)

\* C23: last_target_date is overwritten last in a turn, after the assistant
\* message is appended: a run that appends the user message and is aborted
\* before the assistant message leaves last_target_date at the value it had,
\* and a run that appends both leaves the target date of the run in it.
C23_OverwrittenLast ==
    [][/\ Len(messages') = Len(messages) + 1 => last_target_date' = last_target_date
       /\ Len(messages') = Len(messages) + 2 => last_target_date' = target_date']_vars

-----------------------------------------------------------------------------
(* C24 *)

\* texts a and b are equal after lower-casing both
EqualIgnoringCase(a, b) == lower(a) = lower(b)

\* C24: under a category filter a record of the days looked up is in the
\* context exactly when its Category equals the category of the filter after
\* lower-casing both: a record whose Category differs from the spelling of the
\* keyword table in letter case only is in the context, and a record of another
\* category is not.
C24_CaseInsensitive ==
    Asked /\ TableCategory # "" =>
        \A i \in 1..Len(events_df) :
            events_df[i].Date \in DaysLookedUp =>
                /\ Emitted(events_df[i]) <=> EqualIgnoringCase(events_df[i].Category, TableCategory)
                /\ events_df[i].Category # TableCategory
                       /\ EqualIgnoringCase(events_df[i].Category, TableCategory)
                   => Emitted(events_df[i])

C24_Witness ==
    /\ Asked /\ TableCategory = "Comedy"
    /\ \E i \in 1..Len(events_df) : events_df[i].Category = "comedy" /\ Emitted(events_df[i])
    /\ \E i \in 1..Len(events_df) :
           /\ events_df[i].Date \in DaysLookedUp
           /\ events_df[i].Category = "Music"
           /\ ~Emitted(events_df[i])

-----------------------------------------------------------------------------
(* C25 *)

\* C25: once a run with an utterance has happened in a session,
\* last_target_date holds a date in every later state, also after runs without
\* an utterance; so a run in which an utterance with an anaphora trigger finds
\* no remembered date is the first run with an utterance of its session.
C25_SetAfterFirstTurn ==
    /\ messages # <<>> => last_target_date # NoneDate
    /\ Asked /\ HasAnaphora /\ last_target_date_before = NoneDate => TurnCount = 1

C25_Witness ==
    /\ Asked /\ TurnCount = 2
    /\ messages[1].content = "hi"
    /\ HasAnaphora /\ ~HasTomorrow
    /\ last_target_date_before # NoneDate
    /\ target_date = last_target_date_before

-----------------------------------------------------------------------------
(* C26 *)

\* C26: in every run whose utterance has "next week", the week that
\* date_context_text announces, the Monday after today to the Sunday after it,
\* is the seven days of the headings of the dataset context of the same prompt,
\* whatever last_target_date holds and whatever else the utterance says.
C26_HeaderIsRange ==
    Asked /\ HasNextWeek =>
        LET monday == MondayAfter(current_date)
        IN  /\ date_context_text = "for next week (Monday: " \o strftime(monday)
                                       \o " to Sunday: " \o strftime(monday + 6) \o ")"
            /\ Contains(full_prompt, date_context_text)
            /\ DaysLookedUp = monday..(monday + 6)
            /\ startswith(dataset_context, Heading(monday))
            /\ \A d \in monday..(monday + 6) : Contains(dataset_context, Heading(d))

-----------------------------------------------------------------------------
(* C27 *)

\* the Monday of the Monday-to-Sunday week of day d
MondayOfWeek(d) == d - weekday(d)

\* C27: when the weekend rule decides, the target date is a Saturday, in the
\* Monday-to-Sunday week of today: 0 to 5 days after today when today is a
\* Monday to a Saturday, and the day before today when today is a Sunday.
C27_WeekendSaturday ==
    Asked /\ HasWeekend /\ ~AboveWeekend =>
        /\ weekday(target_date) = 5
        /\ MondayOfWeek(target_date) = MondayOfWeek(current_date)
        /\ weekday(current_date) \in 0..5 =>
               /\ target_date - current_date \in 0..5
               /\ target_date - current_date = 5 - weekday(current_date)
        /\ weekday(current_date) = 6 => target_date = current_date - 1

C27_Witness ==
    /\ Asked /\ HasWeekend /\ ~AboveWeekend
    /\ weekday(current_date) = 6
    /\ target_date = current_date - 1
    /\ DayNames[weekday(target_date) + 1] = "Saturday"

-----------------------------------------------------------------------------
(* C28 *)

\* the weekday (Monday = 0) whose name comes first in the utterance
NamedFirstInUtterance ==
    CHOOSE i \in NamedWeekdays :
        \A h \in NamedWeekdays : FirstPosition(Q, WeekdayWords[i + 1]) <= FirstPosition(Q, WeekdayWords[h + 1])

\* the named weekday that is the fewest days ahead of today
NamedNearest ==
    CHOOSE i \in NamedWeekdays :
        \A h \in NamedWeekdays : (i - weekday(current_date)) % 7 <= (h - weekday(current_date)) % 7

\* C28: when the named-weekday rule decides and the utterance names several
\* weekdays, the target date falls on the one that comes first in the order
\* monday, tuesday, ..., sunday, on no other named weekday, also when another
\* one comes first in the utterance or is nearer to today.
C28_FirstInFixedOrder ==
    Asked /\ ~AboveWeekday /\ Cardinality(NamedWeekdays) >= 2 =>
        /\ \A h \in NamedWeekdays : NamedWeekday <= h
        /\ weekday(target_date) = NamedWeekday
        /\ target_date - current_date = (NamedWeekday - weekday(current_date)) % 7
        /\ NamedFirstInUtterance # NamedWeekday => weekday(target_date) # NamedFirstInUtterance
        /\ NamedNearest # NamedWeekday => weekday(target_date) # NamedNearest

C28_Witness ==
    /\ prompt = "Sunday or tuesday" /\ ~AboveWeekday
    /\ weekday(current_date) = 5
    /\ NamedFirstInUtterance = 6 /\ NamedNearest = 6
    /\ target_date = current_date + 3

-----------------------------------------------------------------------------
(* C29 *)

\* C29: the conversation history in the prompt of the n-th turn of a session
\* is the 2(n-1) entries that the earlier turns appended, a user entry and an
\* assistant entry for each, in order; the entry of the current utterance is
\* not among them, and the utterance is in the prompt once as the "User:"
\* line, after the history.
C29_HistoryInPrompt ==
    Asked =>
        LET n == TurnCount
            user_line == "\nUser: " \o prompt \o "\n"
        IN  /\ Len(messages) >= 2 * (n - 1)
            /\ \A k \in 1..(n - 1) :
                   messages[2 * k - 1].role = "user" /\ messages[2 * k].role = "assistant"
            /\ conversation_history = build_conversation_history(SubSeq(messages, 1, 2 * (n - 1)))
            /\ Contains(full_prompt,
                        "Conversation History:\n" \o conversation_history \o "\n" \o user_line)
            /\ Cardinality(Positions(full_prompt, user_line)) = 1
            /\ FirstPosition(full_prompt, "Conversation History:\n") < FirstPosition(full_prompt, user_line)

-----------------------------------------------------------------------------
(* C30 *)

\* utterance u of app.py contains "plan a date"
AsksPlan(u) == Contains(lower(u), "plan a date")

\* C30 as stated: after every run of app.py whose utterance lacks "plan a
\* date" the flag is False; the update branch is taken only in a run whose
\* utterance lacks "plan a date" and that directly follows the run that
\* assigned True to the flag; no two runs in a row take the update branch.
C30_UpdateOnlyAfterSet ==
    [][/\ ~AsksPlan(app_prompt') => date_plan_context' = "False"
       /\ app_branch' = "update" => app_flag_set /\ ~AsksPlan(app_prompt')
       /\ ~(app_branch = "update" /\ app_branch' = "update")]_vars

\* C30: after every run of app.py whose utterance lacks "plan a date" the flag
\* is False; the update branch is taken only in a run whose utterance lacks
\* "plan a date" and that directly follows a run whose utterance had "plan a
\* date" and which left the flag True, by assigning it or, when its chat call
\* raised, by leaving it as an earlier run had assigned it; no two runs in a
\* row take the update branch.
C30_UpdateAfterPlanTurn ==
    [][/\ ~AsksPlan(app_prompt') => date_plan_context' = "False"
       /\ app_branch' = "update" =>
              /\ date_plan_context = "True"
              /\ AsksPlan(app_prompt)
              /\ ~AsksPlan(app_prompt')
       /\ ~(app_branch = "update" /\ app_branch' = "update")]_vars

C30_Witness ==
    /\ app_branch = "update"
    /\ ~AsksPlan(app_prompt)
    /\ date_plan_context = "False"
    /\ Len(app_messages) = 4
    /\ AsksPlan(app_messages[1].content)

====
